---- MODULE Spec2Model ----
(***************************************************************************)
(* exe4cpp::MockExecutor and exe4cpp::MockTimer (src/exe4cpp/MockExecutor.h)*)
(* as a state machine: the virtual clock, the vector of pending timers, the *)
(* deque of posted actions, the cancel counter, and the caller's calls on   *)
(* the executor and on the Timer handles it got from start().               *)
(***************************************************************************)
EXTENDS Integers, Sequences, FiniteSets, TLC

\* ---------------------------------------------------------------- bounds
\* number of action objects the caller creates (posted or given to start)
MaxId == 3
\* largest value of the virtual clock and of an expiration
MaxTime == 2
\* number of calls the caller makes on the executor and on its Timer handles
MaxCalls == 5

\* ------------------------------------------------------------ value sets
\* what an action_t does when it is invoked: nothing but leave its mark,
\* post another action, or start a timer that is already due
Kinds == {"marker", "poster", "starter"}

Times == 0..MaxTime

\* duration_t is signed
Durations == (0 - MaxTime)..MaxTime

\* the default maximum of run_many, numeric_limits<size_t>::max(): more than
\* the number of actions there are to run
Unbounded == MaxId + 1

\* the maxima run_many is called with: none, several, and the default;
\* run_many(1) is one run_one
Maxima == {0, 2, 3, Unbounded}

\* steady_time_t(): the epoch of the clock
Epoch == 0

\* steady_time_t::max(): later than every time point and every difference of
\* time points there is
TimePointMax == 2 * MaxTime + 1

NoTimer == 0

VARIABLES
    alive,              \* the MockExecutor object exists (constructed, not yet destroyed)
    current_time,       \* MockExecutor::current_time
    post_queue,         \* MockExecutor::post_queue, a deque of action_t
    timers,             \* MockExecutor::timers, a vector of shared_ptr<MockTimer>
    num_timer_cancel_,  \* MockExecutor::num_timer_cancel_
    mock_timers,        \* the MockTimer objects on the heap, by address: time, action
    kinds,              \* the action objects created so far, by id: what each does
    calls,              \* the number of calls made so far
    fault,              \* "none", or what a use of the destroyed executor led to
    log,                \* the invocations of actions so far, in order, with get_time()
    burst,              \* the actions posted in a row onto an idle executor
    script,             \* the calls made in a row on an executor with no work
    cancels,            \* the cancel() calls so far: timer, and where the timer was
    last,               \* the last call: operation, argument, result, state before it
    driver              \* where the test stands: "test", or in its closing loop

vars == <<alive, current_time, post_queue, timers, num_timer_cancel_,
          mock_timers, kinds, calls, fault, log, burst, script, cancels, last,
          driver>>

\* ------------------------------------------------------- sequence helpers
\* std::deque/std::vector push_back
PushBack(q, x) == Append(q, x)

\* std::vector::erase(iter): drop the element at index i
Erase(v, i) == [k \in 1..(Len(v) - 1) |-> IF k < i THEN v[k] ELSE v[k + 1]]

SeqToSet(s) == {s[k] : k \in 1..Len(s)}

\* std::find_if: the index of the first element of v that is among those the
\* predicate accepts, or 0 for end()
FindIf(v, accepted) ==
    IF \E k \in 1..Len(v) : v[k] \in accepted
    THEN CHOOSE k \in 1..Len(v) :
            v[k] \in accepted /\ \A j \in 1..(k - 1) : v[j] \notin accepted
    ELSE 0

\* ------------------------------------------------- the executor as a value
\* The fields an operation of the executor reads and writes, as one record,
\* so that run_one and run_many can be computed as the code computes them.
State ==
    [current_time |-> current_time, post_queue |-> post_queue, timers |-> timers,
     num_timer_cancel_ |-> num_timer_cancel_, mock_timers |-> mock_timers,
     log |-> log]

\* MockTimer::expires_at
expires_at(s, p) == s.mock_timers[p].time

\* post with push_front in place of push_back
post_front(s, a) ==
    [s EXCEPT !.post_queue = <<[action |-> a, timer |-> NoTimer]>> \o s.post_queue]

\* MockExecutor::post
post(s, a) ==
    [s EXCEPT !.post_queue = PushBack(s.post_queue, [action |-> a, timer |-> NoTimer])]

\* MockExecutor::start(const steady_time_t&, const action_t&); the new MockTimer
\* gets the address p
start(s, p, time, a) ==
    [s EXCEPT !.mock_timers = p :> [time |-> time, action |-> a] @@ s.mock_timers,
              !.timers = PushBack(s.timers, p)]

\* MockExecutor::start(const duration_t&, const action_t&)
start_delay(s, p, delay, a) == start(s, p, s.current_time + delay, a)

\* expired with < in place of <=
expired_strict(s, p) == expires_at(s, p) < s.current_time

\* expired with the comparison off by one tick
expired_early(s, p) == expires_at(s, p) <= s.current_time + 1

\* the lambda `expired` of find_expired_timer
expired(s, p) == expires_at(s, p) <= s.current_time

\* find_expired_timer taking the last due timer of the vector, not the first
find_expired_timer_last(s) ==
    LET due == {k \in 1..Len(s.timers) : expired(s, s.timers[k])}
        iter == IF due = {} THEN 0 ELSE CHOOSE k \in due : \A j \in due : j <= k
    IN  IF iter = 0
        THEN [s |-> s, ret |-> FALSE]
        ELSE [s |-> [s EXCEPT
                        !.post_queue = PushBack(s.post_queue,
                            [action |-> s.mock_timers[s.timers[iter]].action,
                             timer |-> s.timers[iter]]),
                        !.timers = Erase(s.timers, iter)],
              ret |-> TRUE]

\* MockExecutor::find_expired_timer: the state after it and what it returns
find_expired_timer(s) ==
    LET iter == FindIf(s.timers, {p \in SeqToSet(s.timers) : expired(s, p)})
    IN  IF iter = 0
        THEN [s |-> s, ret |-> FALSE]
        ELSE [s |-> [s EXCEPT
                        !.post_queue = PushBack(s.post_queue,
                            [action |-> s.mock_timers[s.timers[iter]].action,
                             timer |-> s.timers[iter]]),
                        !.timers = Erase(s.timers, iter)],
              ret |-> TRUE]

\* check_for_expired_timers with an `if` in place of the `while`
check_for_one_expired_timer(s) ==
    LET f == find_expired_timer(s)
    IN  [s |-> f.s, ret |-> IF f.ret THEN 1 ELSE 0]

\* MockExecutor::check_for_expired_timers
RECURSIVE check_for_expired_timers(_)
check_for_expired_timers(s) ==
    LET f == find_expired_timer(s)
    IN  IF f.ret
        THEN LET r == check_for_expired_timers(f.s)
             IN  [s |-> r.s, ret |-> r.ret + 1]
        ELSE [s |-> s, ret |-> 0]

\* MockExecutor::add_time
add_time(s, d) == [s EXCEPT !.current_time = s.current_time + d]

\* MockExecutor::advance_time
advance_time(s, d) == check_for_expired_timers(add_time(s, d))

\* runnable(): the queue entry runs, which runs its action a. A poster posts
\* the action a + 1 and a starter starts a timer for a + 1 with a delay of zero.
invoke(s, runnable) ==
    LET a == runnable.action
        s1 == [s EXCEPT !.log = Append(s.log,
                  [action |-> a, timer |-> runnable.timer, at |-> s.current_time])]
    IN  CASE kinds[a] = "marker" -> s1
          [] kinds[a] = "poster" -> post(s1, a + 1)
          [] kinds[a] = "starter" -> start_delay(s1, a + 1, 0, a + 1)

\* run_one without the sweep at its start
run_one_unswept(s) ==
    IF Len(s.post_queue) > 0
    THEN LET runnable == Head(s.post_queue)
             s2 == [s EXCEPT !.post_queue = Tail(s.post_queue)]
         IN  [s |-> invoke(s2, runnable), ret |-> TRUE]
    ELSE [s |-> s, ret |-> FALSE]

\* run_one sweeping once more after the action has returned
run_one_resweeps(s) ==
    LET s1 == check_for_expired_timers(s).s
    IN  IF Len(s1.post_queue) > 0
        THEN LET runnable == Head(s1.post_queue)
                 s2 == [s1 EXCEPT !.post_queue = Tail(s1.post_queue)]
             IN  [s |-> check_for_expired_timers(invoke(s2, runnable)).s, ret |-> TRUE]
        ELSE [s |-> s1, ret |-> FALSE]

\* MockExecutor::run_one
run_one(s) ==
    LET s1 == check_for_expired_timers(s).s
    IN  IF Len(s1.post_queue) > 0
        THEN LET runnable == Head(s1.post_queue)
                 s2 == [s1 EXCEPT !.post_queue = Tail(s1.post_queue)]
             IN  [s |-> invoke(s2, runnable), ret |-> TRUE]
        ELSE [s |-> s1, ret |-> FALSE]

\* run_many with the loop test `num <= aMaximum`
RECURSIVE run_many_more(_, _, _)
run_many_more(s, num, aMaximum) ==
    IF num <= aMaximum
    THEN LET r == run_one(s)
         IN  IF r.ret THEN run_many_more(r.s, num + 1, aMaximum)
             ELSE [s |-> r.s, ret |-> num]
    ELSE [s |-> s, ret |-> num]

\* run_many with an `if` in place of the `while`
run_many_once(s, num, aMaximum) ==
    IF num < aMaximum
    THEN LET r == run_one(s)
         IN  [s |-> r.s, ret |-> IF r.ret THEN num + 1 ELSE num]
    ELSE [s |-> s, ret |-> num]

\* MockExecutor::run_many: the loop `while (num < aMaximum && run_one()) ++num`
RECURSIVE run_many(_, _, _)
run_many(s, num, aMaximum) ==
    IF num < aMaximum
    THEN LET r == run_one(s)
         IN  IF r.ret THEN run_many(r.s, num + 1, aMaximum)
             ELSE [s |-> r.s, ret |-> num]
    ELSE [s |-> s, ret |-> num]

\* cancel that counts the timer it finds but leaves it in the vector
cancel_keeps(s, timer) ==
    LET result == FindIf(s.timers, {item \in SeqToSet(s.timers) : item = timer})
    IN  IF result # 0
        THEN [s EXCEPT !.num_timer_cancel_ = s.num_timer_cancel_ + 1]
        ELSE s

\* cancel that erases the timer without counting it
cancel_uncounted(s, timer) ==
    LET result == FindIf(s.timers, {item \in SeqToSet(s.timers) : item = timer})
    IN  IF result # 0
        THEN [s EXCEPT !.timers = Erase(s.timers, result)]
        ELSE s

\* cancel that counts whether or not it finds the timer
cancel_counts(s, timer) ==
    LET result == FindIf(s.timers, {item \in SeqToSet(s.timers) : item = timer})
    IN  IF result # 0
        THEN [s EXCEPT !.num_timer_cancel_ = s.num_timer_cancel_ + 1,
                       !.timers = Erase(s.timers, result)]
        ELSE [s EXCEPT !.num_timer_cancel_ = s.num_timer_cancel_ + 1]

\* cancel that also looks for the timer among the queued entries
cancel_purges(s, timer) ==
    LET result == FindIf(s.timers, {item \in SeqToSet(s.timers) : item = timer})
        queued == FindIf(s.post_queue, {entry \in SeqToSet(s.post_queue) : entry.timer = timer})
    IN  IF result # 0
        THEN [s EXCEPT !.num_timer_cancel_ = s.num_timer_cancel_ + 1,
                       !.timers = Erase(s.timers, result)]
        ELSE IF queued # 0
        THEN [s EXCEPT !.num_timer_cancel_ = s.num_timer_cancel_ + 1,
                       !.post_queue = Erase(s.post_queue, queued)]
        ELSE s

\* MockExecutor::cancel(ITimer*)
cancel(s, timer) ==
    LET result == FindIf(s.timers, {item \in SeqToSet(s.timers) : item = timer})
    IN  IF result # 0
        THEN [s EXCEPT !.num_timer_cancel_ = s.num_timer_cancel_ + 1,
                       !.timers = Erase(s.timers, result)]
        ELSE s

\* next_timer_expiration_abs taking the front of the vector for its minimum
next_timer_expiration_front(s) ==
    IF Len(s.timers) = 0 THEN Epoch ELSE expires_at(s, s.timers[1])

\* MockExecutor::next_timer_expiration_abs
next_timer_expiration_abs(s) ==
    IF Len(s.timers) = 0
    THEN Epoch
    ELSE LET m == CHOOSE k \in 1..Len(s.timers) :
                    \A j \in 1..Len(s.timers) :
                        /\ expires_at(s, s.timers[k]) <= expires_at(s, s.timers[j])
                        /\ (j < k => expires_at(s, s.timers[k]) < expires_at(s, s.timers[j]))
         IN  expires_at(s, s.timers[m])

\* MockExecutor::next_timer_expiration_rel
next_timer_expiration_rel(s) ==
    IF Len(s.timers) = 0
    THEN TimePointMax
    ELSE LET m == CHOOSE k \in 1..Len(s.timers) :
                    \A j \in 1..Len(s.timers) :
                        /\ expires_at(s, s.timers[k]) <= expires_at(s, s.timers[j])
                        /\ (j < k => expires_at(s, s.timers[k]) < expires_at(s, s.timers[j]))
         IN  expires_at(s, s.timers[m]) - s.current_time

\* advance_to_next_timer comparing with >= in place of >
advance_to_next_timer_due(s) ==
    IF Len(s.timers) = 0
    THEN [s |-> s, ret |-> FALSE]
    ELSE LET timestamp == next_timer_expiration_abs(s)
         IN  IF timestamp >= s.current_time
             THEN [s |-> [s EXCEPT !.current_time = timestamp], ret |-> TRUE]
             ELSE [s |-> s, ret |-> FALSE]

\* MockExecutor::advance_to_next_timer
advance_to_next_timer(s) ==
    IF Len(s.timers) = 0
    THEN [s |-> s, ret |-> FALSE]
    ELSE LET timestamp == next_timer_expiration_abs(s)
         IN  IF timestamp > s.current_time
             THEN [s |-> [s EXCEPT !.current_time = timestamp], ret |-> TRUE]
             ELSE [s |-> s, ret |-> FALSE]

\* MockExecutor::num_active
num_active(s) == Len(s.post_queue)

\* MockExecutor::num_pending_timers
num_pending_timers(s) == Len(s.timers)

\* MockExecutor::num_timer_cancel
num_timer_cancel(s) == s.num_timer_cancel_

\* MockExecutor::get_time
get_time(s) == s.current_time

\* ------------------------------------------------------------ the calls
\* the executor has no entry in its queue and no pending timer that is due
Idle(s) == Len(s.post_queue) = 0 /\ \A k \in 1..Len(s.timers) : ~expired(s, s.timers[k])

\* the executor has no entry in its queue and no pending timer
Fresh(s) == Len(s.post_queue) = 0 /\ Len(s.timers) = 0

\* the timers cancel() was called on so far
CancelCalled == {c.timer : c \in cancels}

\* the state a call started from, as far as later observations need it
Pre ==
    [alive |-> alive, current_time |-> current_time, post_queue |-> post_queue,
     timers |-> timers, num_timer_cancel_ |-> num_timer_cancel_,
     nlog |-> Len(log), burst |-> burst, script |-> script,
     cancel_called |-> CancelCalled]

NoBurst == [ok |-> FALSE, ids |-> <<>>]

NoScript == [on |-> FALSE, calls |-> <<>>]

\* the two test scripts that are followed call by call: three timers and an
\* advance of the clock, and a timer between two posts
ScriptShapes ==
    {<<"start", "start", "start", "advance_time">>, <<"post", "start", "post">>}

\* the operations of the calls cs are the beginning of a test script
Shaped(cs) ==
    \E shape \in ScriptShapes :
        /\ Len(cs) <= Len(shape)
        /\ \A k \in 1..Len(cs) : cs[k].op = shape[k]

\* the script of calls goes on with the call c, or starts with it
Scripted(c) ==
    LET cs == IF Fresh(State) THEN <<c>>
              ELSE IF script.on THEN Append(script.calls, c)
              ELSE <<>>
    IN  script' = IF cs # <<>> /\ Shaped(cs) THEN [on |-> TRUE, calls |-> cs]
                  ELSE NoScript

\* the id of the next action object the caller creates
NextId == Len(kinds) + 1

\* an action of kind k takes one id, and a second one for the action it
\* hands on when it is a poster or a starter
NewKinds(k) == IF k = "marker" THEN <<k>> ELSE <<k, "marker">>

\* one more call is made, by the body of the test
Called ==
    /\ driver = "test"
    /\ calls < MaxCalls
    /\ calls' = calls + 1
    /\ driver' = driver

Running == alive /\ fault = "none"

\* the executor's fields take the values of the record s
Becomes(s) ==
    /\ current_time' = s.current_time
    /\ post_queue' = s.post_queue
    /\ timers' = s.timers
    /\ num_timer_cancel_' = s.num_timer_cancel_
    /\ mock_timers' = s.mock_timers
    /\ log' = s.log

\* MockExecutor(): the state after construction
Init ==
    /\ alive = TRUE
    /\ current_time = Epoch
    /\ post_queue = <<>>
    /\ timers = <<>>
    /\ num_timer_cancel_ = 0
    /\ mock_timers = [p \in {} |-> 0]
    /\ kinds = <<>>
    /\ calls = 0
    /\ fault = "none"
    /\ log = <<>>
    /\ burst = NoBurst
    /\ script = NoScript
    /\ cancels = {}
    /\ last = [op |-> "new", arg |-> 0, ret |-> 0, pre |-> 0]
    /\ driver = "test"

\* executor.post(action)
Post(k) ==
    /\ Running
    /\ Called
    /\ Len(kinds) + Len(NewKinds(k)) <= MaxId
    /\ Becomes(post(State, NextId))
    /\ kinds' = kinds \o NewKinds(k)
    /\ burst' = IF Idle(State) THEN [ok |-> TRUE, ids |-> <<NextId>>]
                ELSE IF burst.ok THEN [burst EXCEPT !.ids = Append(@, NextId)]
                ELSE NoBurst
    /\ Scripted([op |-> "post", arg |-> NextId])
    /\ last' = [op |-> "post", arg |-> NextId, ret |-> 0, pre |-> Pre]
    /\ UNCHANGED <<alive, fault, cancels>>

\* executor.start(time, action), the overload taking an absolute expiration
Start(time, k) ==
    /\ Running
    /\ Called
    /\ Len(kinds) + Len(NewKinds(k)) <= MaxId
    /\ Becomes(start(State, NextId, time, NextId))
    /\ kinds' = kinds \o NewKinds(k)
    /\ burst' = NoBurst
    /\ Scripted([op |-> "start", arg |-> NextId])
    /\ last' = [op |-> "start", arg |-> NextId, ret |-> NextId, pre |-> Pre]
    /\ UNCHANGED <<alive, fault, cancels>>

\* executor.run_one()
RunOne ==
    /\ Running
    /\ Called
    /\ LET r == run_one(State)
       IN  /\ Becomes(r.s)
           /\ last' = [op |-> "run_one", arg |-> 0, ret |-> r.ret, pre |-> Pre]
    /\ burst' = NoBurst
    /\ script' = NoScript
    /\ UNCHANGED <<alive, fault, kinds, cancels>>

\* executor.run_many(maximum)
RunMany(maximum) ==
    /\ Running
    /\ Called
    /\ LET r == run_many(State, 0, maximum)
       IN  /\ Becomes(r.s)
           /\ last' = [op |-> "run_many", arg |-> maximum, ret |-> r.ret, pre |-> Pre]
    /\ burst' = NoBurst
    /\ script' = NoScript
    /\ UNCHANGED <<alive, fault, kinds, cancels>>

\* executor.advance_time(duration)
AdvanceTime(d) ==
    /\ Running
    /\ Called
    /\ current_time + d \in Times
    /\ LET r == advance_time(State, d)
       IN  /\ Becomes(r.s)
           /\ last' = [op |-> "advance_time", arg |-> d, ret |-> r.ret, pre |-> Pre]
    /\ burst' = NoBurst
    /\ Scripted([op |-> "advance_time", arg |-> d])
    /\ UNCHANGED <<alive, fault, kinds, cancels>>

\* executor.add_time(duration)
AddTime(d) ==
    /\ Running
    /\ Called
    /\ current_time + d \in Times
    /\ Becomes(add_time(State, d))
    /\ last' = [op |-> "add_time", arg |-> d, ret |-> 0, pre |-> Pre]
    /\ burst' = NoBurst
    /\ script' = NoScript
    /\ UNCHANGED <<alive, fault, kinds, cancels>>

\* executor.advance_to_next_timer()
AdvanceToNextTimer ==
    /\ Running
    /\ Called
    /\ LET r == advance_to_next_timer(State)
       IN  /\ Becomes(r.s)
           /\ last' = [op |-> "advance_to_next_timer", arg |-> 0, ret |-> r.ret,
                       pre |-> Pre]
    /\ burst' = NoBurst
    /\ script' = NoScript
    /\ UNCHANGED <<alive, fault, kinds, cancels>>

\* executor.next_timer_expiration_abs(), a const method
NextTimerExpirationAbs ==
    /\ Running
    /\ Called
    /\ last' = [op |-> "next_timer_expiration_abs", arg |-> 0,
                ret |-> next_timer_expiration_abs(State), pre |-> Pre]
    /\ burst' = NoBurst
    /\ script' = NoScript
    /\ UNCHANGED <<alive, current_time, post_queue, timers, num_timer_cancel_,
                   mock_timers, kinds, fault, log, cancels>>

\* executor.next_timer_expiration_rel(), a const method
NextTimerExpirationRel ==
    /\ Running
    /\ Called
    /\ last' = [op |-> "next_timer_expiration_rel", arg |-> 0,
                ret |-> next_timer_expiration_rel(State), pre |-> Pre]
    /\ burst' = NoBurst
    /\ script' = NoScript
    /\ UNCHANGED <<alive, current_time, post_queue, timers, num_timer_cancel_,
                   mock_timers, kinds, fault, log, cancels>>

\* where the timer at address p is when cancel() is called on it
Whereabouts(p) ==
    [timer |-> p,
     due |-> expired(State, p),
     pending |-> p \in SeqToSet(timers),
     queued |-> \E k \in 1..Len(post_queue) : post_queue[k].timer = p]

\* MockTimer::cancel on the timer at address p, through a Timer handle, while
\* the executor `source` points to exists
Cancel(p) ==
    /\ Running
    /\ Called
    /\ Becomes(cancel(State, p))
    /\ cancels' = cancels \cup {Whereabouts(p)}
    /\ last' = [op |-> "cancel", arg |-> p, ret |-> 0, pre |-> Pre]
    /\ burst' = NoBurst
    /\ script' = NoScript
    /\ UNCHANGED <<alive, fault, kinds>>

\* ~MockExecutor(): the executor goes out of scope; the Timer handles, which
\* share ownership of their MockTimer, live on
Destroy ==
    /\ Running
    /\ Called
    /\ alive' = FALSE
    /\ last' = [op |-> "destroy", arg |-> 0, ret |-> 0, pre |-> Pre]
    /\ burst' = NoBurst
    /\ script' = NoScript
    /\ UNCHANGED <<current_time, post_queue, timers, num_timer_cancel_,
                   mock_timers, kinds, fault, log, cancels>>

\* what `source->cancel(this)` can do once *source is destroyed: the call reads
\* and writes freed memory. It acts on the stale fields, finds nothing, or the
\* process dies.
DanglingOutcomes(p) ==
    {[fault |-> "dangling", s |-> cancel(State, p)],
     [fault |-> "dangling", s |-> State],
     [fault |-> "crash", s |-> State]}

\* MockTimer::cancel on the timer at address p after the executor was destroyed
CancelDestroyed(p) ==
    /\ ~alive
    /\ Called
    /\ fault # "crash"
    /\ \E o \in DanglingOutcomes(p) :
          /\ fault' = o.fault
          /\ Becomes(o.s)
    /\ last' = [op |-> "cancel", arg |-> p, ret |-> 0, pre |-> Pre]
    /\ UNCHANGED <<alive, kinds, burst, script, cancels>>

Next ==
    \/ \E k \in Kinds : Post(k)
    \/ \E time \in Times : Start(time, "marker")
    \/ RunOne
    \/ \E maximum \in Maxima : RunMany(maximum)
    \/ \E d \in Durations : AdvanceTime(d)
    \/ \E d \in Durations : AddTime(d)
    \/ AdvanceToNextTimer
    \/ NextTimerExpirationAbs
    \/ NextTimerExpirationRel
    \/ \E p \in DOMAIN mock_timers : Cancel(p)
    \/ Destroy
    \/ \E p \in DOMAIN mock_timers : CancelDestroyed(p)

Spec == Init /\ [][Next]_vars

\* ------------------------------------------------- the test-driver loop
\* A test that ends with the loop
\*     for (;;) { executor.advance_to_next_timer(); executor.run_many(); }
\* after its body: the body makes the calls that bring work to the executor,
\* moving the clock on a tick at a time, the loop makes no others.

\* the loop's executor.advance_to_next_timer(); the first one ends the body
DriverAdvance ==
    /\ Running
    /\ driver \in {"test", "advance"}
    /\ driver' = "run"
    /\ LET r == advance_to_next_timer(State)
       IN  /\ Becomes(r.s)
           /\ last' = [op |-> "advance_to_next_timer", arg |-> 0, ret |-> r.ret,
                       pre |-> Pre]
    /\ burst' = NoBurst
    /\ script' = NoScript
    /\ UNCHANGED <<alive, fault, kinds, cancels, calls>>

\* the loop's executor.run_many(), with the default maximum
DriverRun ==
    /\ Running
    /\ driver = "run"
    /\ driver' = "advance"
    /\ LET r == run_many(State, 0, Unbounded)
       IN  /\ Becomes(r.s)
           /\ last' = [op |-> "run_many", arg |-> Unbounded, ret |-> r.ret, pre |-> Pre]
    /\ burst' = NoBurst
    /\ script' = NoScript
    /\ UNCHANGED <<alive, fault, kinds, cancels, calls>>

NextDriver ==
    \/ \E k \in Kinds : Post(k)
    \/ \E time \in Times : Start(time, "marker")
    \/ AdvanceTime(1)
    \/ \E p \in DOMAIN mock_timers : Cancel(p)
    \/ DriverAdvance
    \/ DriverRun

\* the step from the loop's run_many() to its next round: of the steps of
\* NextDriver, the DriverRun steps and no others; the executor of a test that
\* is in its loop exists, so the step is possible whenever driver = "run"
DriverRunTurn == driver = "run" /\ driver' = "advance"

\* the loop is sequential code that does not stop: each of its two calls is
\* made once it is the loop's turn to make it
SpecDriver ==
    Init /\ [][NextDriver]_vars /\ WF_driver(DriverAdvance) /\ WF_driver(DriverRunTurn)

\* --------------------------------------------------------- observations
\* the call that was made last, made on the live executor
Did(op) == last.op = op /\ last.pre.alive

\* the actions the last call invoked, in order
Invoked == [k \in 1..(Len(log) - last.pre.nlog) |-> log[last.pre.nlog + k].action]

\* the expiration of the timer at address p
Expiration(p) == mock_timers[p].time

\* the action of the timer at address p was invoked
Ran(p) == \E k \in 1..Len(log) : log[k].timer = p

\* the timer at address p sits in the ready queue
Queued(p) == \E k \in 1..Len(post_queue) : post_queue[k].timer = p

\* the timer at address p is in the pending set
Pending(p) == p \in SeqToSet(timers)

\* ------------------------------------------------------------------ C1
\* C1: N actions posted in a row onto an executor with an empty ready queue
\* and no due timer: run_many(N) invokes exactly these N actions, in the
\* order they were posted, and returns N.
FifoOfPostedWork ==
    (Did("run_many") /\ last.pre.burst.ok /\ last.arg = Len(last.pre.burst.ids))
        => (last.ret = last.arg /\ Invoked = last.pre.burst.ids)

\* three actions were posted in a row and run_many(3) ran them
FifoOfPostedWorkWitness ==
    /\ Did("run_many")
    /\ last.pre.burst.ok
    /\ Len(last.pre.burst.ids) = 3
    /\ last.arg = 3
    /\ last.ret = 3
    /\ Len(Invoked) = 3

\* ------------------------------------------------------------------ C2
\* the last call is the run_many that ends the script "three timers with
\* three different expirations, then an advance_time that reaches the latest"
ThreeTimersAdvanced ==
    /\ Did("run_many")
    /\ last.arg >= 3
    /\ last.pre.script.on
    /\ Len(last.pre.script.calls) = 4
    /\ last.pre.script.calls[4].op = "advance_time"
    /\ LET t(k) == Expiration(last.pre.script.calls[k].arg)
       IN  /\ t(1) # t(2) /\ t(1) # t(3) /\ t(2) # t(3)
           /\ \A k \in 1..3 : t(k) <= last.pre.current_time

\* C2: three timers with expirations t1 < t2 < t3, started in any order; after
\* advance_time has taken the clock to t3 or later, run_many invokes their
\* actions in the order t1, t2, t3.
TimerOrdering ==
    ThreeTimersAdvanced
        => /\ Len(Invoked) = 3
           /\ Expiration(Invoked[1]) < Expiration(Invoked[2])
           /\ Expiration(Invoked[2]) < Expiration(Invoked[3])

\* ------------------------------------------------------------------ C3
\* the last call is the run_many(3) that ends the script post(A);
\* start(get_time(), B); post(C)
PostTimerPost ==
    /\ Did("run_many")
    /\ last.arg = 3
    /\ last.pre.script.on
    /\ Len(last.pre.script.calls) = 3
    /\ last.pre.script.calls[1].op = "post"
    /\ Expiration(last.pre.script.calls[2].arg) = last.pre.current_time

\* C3: post(A); start(get_time(), B); post(C); run_many(3) invokes A, then B,
\* then C: C was posted when the timer of B was already due, so it runs after B.
EligibleOrder ==
    PostTimerPost
        => Invoked = <<last.pre.script.calls[1].arg, last.pre.script.calls[2].arg,
                       last.pre.script.calls[3].arg>>

\* ------------------------------------------------------------------ C4
\* C4: cancel() on the handle of a pending timer adds exactly 1 to
\* num_timer_cancel(), takes exactly 1 from num_pending_timers(), and the
\* timer's action is not invoked by anything that happens later.
CancellationSafety ==
    /\ (Did("cancel") /\ last.arg \in SeqToSet(last.pre.timers))
          => /\ num_timer_cancel(State) = last.pre.num_timer_cancel_ + 1
             /\ num_pending_timers(State) = Len(last.pre.timers) - 1
    /\ \A c \in cancels : c.pending => ~Ran(c.timer) /\ ~Queued(c.timer)

\* a timer was cancelled while pending and not yet due, the clock has since
\* reached its expiration and the executor was drained
CancellationSafetyWitness ==
    /\ Did("run_many")
    /\ last.arg = Unbounded
    /\ \E c \in cancels :
          /\ c.pending
          /\ ~c.due
          /\ Expiration(c.timer) <= get_time(State)
          /\ num_timer_cancel(State) = 1
          /\ ~Ran(c.timer)

\* ------------------------------------------------------------------ C5
\* C5: a second cancel() on a handle, whatever was called on the executor in
\* between, leaves the pending set, the ready queue, the clock and
\* num_timer_cancel() as they are.
DoubleCancelIdempotent ==
    (Did("cancel") /\ last.arg \in last.pre.cancel_called)
        => /\ timers = last.pre.timers
           /\ post_queue = last.pre.post_queue
           /\ get_time(State) = last.pre.current_time
           /\ num_timer_cancel(State) = last.pre.num_timer_cancel_

\* a pending timer was cancelled, and cancelled again while other timers pend
DoubleCancelWitness ==
    /\ Did("cancel")
    /\ last.arg \in last.pre.cancel_called
    /\ \E c \in cancels : c.timer = last.arg /\ c.pending
    /\ num_timer_cancel(State) = 1
    /\ num_pending_timers(State) > 0

\* ------------------------------------------------------------------ C6
\* C6: cancel() on the handle of a timer that was swept into the ready queue
\* does not count, leaves the ready queue as it is, and the timer's entry
\* stays in the queue until it is invoked.
FiringWinsOverCancel ==
    /\ (Did("cancel") /\ \E k \in 1..Len(last.pre.post_queue) :
                            last.pre.post_queue[k].timer = last.arg)
          => /\ num_timer_cancel(State) = last.pre.num_timer_cancel_
             /\ post_queue = last.pre.post_queue
    /\ \A c \in cancels : c.queued => (Queued(c.timer) \/ Ran(c.timer))

\* a timer was swept, cancel() was called on its handle, and its action ran
FiringWinsWitness ==
    /\ last.op \in {"run_one", "run_many"}
    /\ \E c \in cancels : c.queued /\ ~c.pending /\ Ran(c.timer)
    /\ num_timer_cancel(State) = 0

\* ------------------------------------------------------------------ C7
\* C7: get_time() after add_time(d) or advance_time(d) is not smaller than
\* before, for every duration d, negative ones included.
TimeMonotonic ==
    (Did("add_time") \/ Did("advance_time"))
        => get_time(State) >= last.pre.current_time

\* ------------------------------------------------------------------ C8
\* C8: when no pending timer expires in (old_time, old_time + d],
\* advance_time(d) returns 0 and leaves num_active() as it is.
NoSpuriousFiring ==
    (Did("advance_time")
        /\ \A k \in 1..Len(last.pre.timers) :
              ~(/\ Expiration(last.pre.timers[k]) > last.pre.current_time
                /\ Expiration(last.pre.timers[k]) <= last.pre.current_time + last.arg))
        => (last.ret = 0 /\ num_active(State) = Len(last.pre.post_queue))

\* C8 as amended: when no pending timer expires at or before old_time + d,
\* advance_time(d) returns 0 and leaves num_active() as it is.
NoSpuriousFiringAmended ==
    (Did("advance_time")
        /\ \A k \in 1..Len(last.pre.timers) :
              Expiration(last.pre.timers[k]) > last.pre.current_time + last.arg)
        => (last.ret = 0 /\ num_active(State) = Len(last.pre.post_queue))

\* the clock was advanced while a timer was pending that expires later
NoSpuriousFiringWitness ==
    /\ Did("advance_time")
    /\ last.arg > 0
    /\ Len(last.pre.timers) > 0
    /\ \A k \in 1..Len(last.pre.timers) :
          Expiration(last.pre.timers[k]) > last.pre.current_time + last.arg
    /\ last.ret = 0
    /\ timers = last.pre.timers

\* ------------------------------------------------------------------ C9
\* C9: no timer's action is invoked at a moment when get_time() is smaller
\* than the timer's expiration.
NoEarlyFiring ==
    \A k \in 1..Len(log) :
        log[k].timer # NoTimer => log[k].at >= Expiration(log[k].timer)

\* ------------------------------------------------------------------ C10
\* C10: cancel() on a Timer handle after the executor was destroyed does
\* nothing and reads nothing of the destroyed executor.
TeardownSafety ==
    (last.op = "cancel" /\ ~last.pre.alive)
        => /\ fault = "none"
           /\ num_timer_cancel_ = last.pre.num_timer_cancel_
           /\ timers = last.pre.timers

\* ------------------------------------------------------------------ C11
\* the timers of the vector v that expire at or before the time t, in the
\* order of v, and those that expire later
DueAt(v, t) == SelectSeq(v, LAMBDA p : Expiration(p) <= t)

LaterThan(v, t) == SelectSeq(v, LAMBDA p : Expiration(p) > t)

\* the earliest expiration among the timers of the non-empty vector v
Earliest(v) ==
    CHOOSE t \in {Expiration(p) : p \in SeqToSet(v)} :
        \A p \in SeqToSet(v) : t <= Expiration(p)

\* C11: advance_to_next_timer() returns true exactly when there is a pending
\* timer and the earliest pending expiration is later than get_time(); the
\* clock then becomes that expiration and nothing is swept. Otherwise it
\* returns false and changes nothing. get_time() never gets smaller.
AdvanceToNextTimerContract ==
    Did("advance_to_next_timer")
        => /\ last.ret = (/\ Len(last.pre.timers) > 0
                          /\ Earliest(last.pre.timers) > last.pre.current_time)
           /\ get_time(State) = IF last.ret THEN Earliest(last.pre.timers)
                                ELSE last.pre.current_time
           /\ get_time(State) >= last.pre.current_time
           /\ timers = last.pre.timers
           /\ post_queue = last.pre.post_queue
           /\ num_timer_cancel(State) = last.pre.num_timer_cancel_
           /\ Len(log) = last.pre.nlog

\* the clock jumped to the earliest of two pending expirations, started latest
\* first, and the timer stayed pending
AdvanceToNextTimerWitness ==
    /\ Did("advance_to_next_timer")
    /\ last.ret = TRUE
    /\ Len(timers) >= 2
    /\ Expiration(timers[1]) > Expiration(timers[2])
    /\ get_time(State) = Expiration(timers[2])
    /\ get_time(State) > last.pre.current_time

Swept(pre) ==
    pre.post_queue \o
    [k \in 1..Len(DueAt(pre.timers, pre.current_time)) |->
        [action |-> mock_timers[DueAt(pre.timers, pre.current_time)[k]].action,
         timer |-> DueAt(pre.timers, pre.current_time)[k]]]

\* C13: run_one() sweeps the due timers into the ready queue, then invokes
\* exactly the front entry and returns true, or, with the queue still empty,
\* invokes nothing and returns false: true means one action was invoked, false
\* means the queue was empty and no pending timer was due.
RunOneContract ==
    Did("run_one")
        => /\ last.ret = (Len(Swept(last.pre)) > 0)
           /\ last.ret = (Len(Invoked) = 1)
           /\ last.ret => Invoked[1] = Head(Swept(last.pre)).action
           /\ ~last.ret => (Len(Invoked) = 0 /\ Len(last.pre.post_queue) = 0
                            /\ Len(DueAt(last.pre.timers, last.pre.current_time)) = 0)
           /\ \A p \in SeqToSet(DueAt(last.pre.timers, last.pre.current_time)) :
                  ~Pending(p) /\ (Queued(p) \/ Ran(p))

\* run_one found the queue empty, swept a due timer and invoked its action
RunOneWitness ==
    /\ Did("run_one")
    /\ last.ret = TRUE
    /\ Len(last.pre.post_queue) = 0
    /\ Len(DueAt(last.pre.timers, last.pre.current_time)) = 2
    /\ Len(post_queue) = 1
    /\ Ran(last.pre.timers[1])

\* ------------------------------------------------------------------ C14
\* C14: run_many(max) returns the number of actions it invoked, never more
\* than max; when it returns less than max, the ready queue is empty and no
\* pending timer is due; run_many(0) invokes nothing and returns 0.
RunManyContract ==
    Did("run_many")
        => /\ last.ret = Len(Invoked)
           /\ last.ret <= last.arg
           /\ last.ret < last.arg => Idle(State)
           /\ last.arg = 0 => (/\ last.ret = 0
                               /\ post_queue = last.pre.post_queue
                               /\ timers = last.pre.timers)

\* run_many stopped at its maximum with work left, after invoking two actions
RunManyWitness ==
    /\ Did("run_many")
    /\ last.arg = 2
    /\ last.ret = 2
    /\ ~Idle(State)

\* C15: next_timer_expiration_abs returns the least expiration among the
\* pending timers, or the epoch of the clock when no timer is pending;
\* next_timer_expiration_rel returns that least expiration minus the current
\* time, or the greatest time point when no timer is pending; neither changes
\* the executor.
NextTimerExpirationContract ==
    /\ Did("next_timer_expiration_abs")
          => /\ last.ret = (IF timers = <<>> THEN Epoch ELSE Earliest(timers))
             /\ timers = last.pre.timers
             /\ post_queue = last.pre.post_queue
             /\ current_time = last.pre.current_time
    /\ Did("next_timer_expiration_rel")
          => /\ last.ret = (IF timers = <<>> THEN TimePointMax
                            ELSE Earliest(timers) - current_time)
             /\ timers = last.pre.timers
             /\ post_queue = last.pre.post_queue
             /\ current_time = last.pre.current_time

\* the absolute expiration was asked for with the earliest pending timer behind
\* the front of the vector, and a cancelled timer earlier than every pending one
NextTimerExpirationWitness ==
    /\ Did("next_timer_expiration_abs")
    /\ Len(timers) >= 2
    /\ last.ret < Expiration(timers[1])
    /\ \E c \in cancels : c.pending /\ Expiration(c.timer) < last.ret

\* the timers started so far
Started == DOMAIN mock_timers

\* the timer at address p was moved to the ready queue, or has run already
Fired(p) == Queued(p) \/ Ran(p)

\* how often the action of the timer at address p was invoked, or stands in
\* the ready queue to be
Firings(p) ==
    Cardinality({k \in 1..Len(log) : log[k].timer = p})
        + Cardinality({k \in 1..Len(post_queue) : post_queue[k].timer = p})

\* C16: in every reachable state each started timer is pending, or fired
\* (in the ready queue, or run), or cancelled, and in one of the three only:
\* no timer is pending twice, none is pending and fired, none cancelled while
\* pending is fired or pending again, the action of each is invoked or queued
\* at most once, and the timers started are as many as num_pending_timers()
\* plus num_timer_cancel() plus the timers fired.
TimerStateExclusivity ==
    /\ SeqToSet(timers) \subseteq Started
    /\ \A j, k \in 1..Len(timers) : timers[j] = timers[k] => j = k
    /\ \A p \in Started :
          /\ ~(Pending(p) /\ Fired(p))
          /\ Firings(p) <= 1
          /\ (\E c \in cancels : c.timer = p /\ c.pending)
                => ~Pending(p) /\ ~Fired(p)
    /\ Cardinality(Started)
          = num_pending_timers(State) + num_timer_cancel(State)
              + Cardinality({p \in Started : Fired(p)})

\* one timer was cancelled while pending and counted, another was cancelled
\* in the ready queue, where it still stands, and was not counted
TimerStateExclusivityWitness ==
    /\ alive
    /\ num_timer_cancel(State) = 1
    /\ \E c \in cancels : c.pending /\ ~Fired(c.timer)
    /\ \E c \in cancels : c.queued /\ Queued(c.timer)

\* the place of x in the sequence v
Index(v, x) == CHOOSE k \in 1..Len(v) : v[k] = x

\* the timer at address p was started by a call of the test, not by an action:
\* of two such timers the one with the smaller address was started first
TopLevel(p) == p = 1 \/ kinds[p - 1] # "starter"

\* the pending set stands in the order the timers were started in
InStartOrder ==
    \A j, k \in 1..Len(timers) :
        (j < k /\ TopLevel(timers[j]) /\ TopLevel(timers[k])) => timers[j] < timers[k]

\* a sweep by advance_time moves every due timer, each as one entry, in the
\* order of the pending set, behind the entries queued before, and runs none;
\* a run_one that returns true invokes one action only
SweepsAllDue ==
    /\ InStartOrder
    /\ Did("advance_time")
          => /\ post_queue = Swept([last.pre EXCEPT !.current_time = @ + last.arg])
             /\ Len(log) = last.pre.nlog
    /\ (Did("run_one") /\ last.ret) => Len(Invoked) = 1

\* in one step, timers are started at the back of the pending set and the rest
\* of it keeps its order; the timers the step moves to the ready queue stand
\* there in the order they had in the pending set, behind every entry that
\* was queued before the step
SweepKeepsStartOrder ==
    /\ \A j, k \in 1..Len(timers') :
          j < k =>
             /\ timers'[j] \notin SeqToSet(timers) => timers'[k] \notin SeqToSet(timers)
             /\ (timers'[j] \in SeqToSet(timers) /\ timers'[k] \in SeqToSet(timers))
                   => Index(timers, timers'[j]) < Index(timers, timers'[k])
    /\ \A j, k \in 1..Len(post_queue') :
          (j < k /\ post_queue'[j].timer \in SeqToSet(timers))
             => /\ post_queue'[k] \notin SeqToSet(post_queue)
                /\ post_queue'[k].timer \in SeqToSet(timers)
                      => Index(timers, post_queue'[j].timer)
                            < Index(timers, post_queue'[k].timer)

\* C17: when several pending timers are due at a sweep, timers with equal
\* expirations among them, the sweep moves all of them to the ready queue
\* before any of them runs, in the order they were started in, each as an
\* entry of its own behind the entries queued already, and each run_one that
\* follows invokes one of them.
SweepTieBreak == [](SweepsAllDue) /\ [][SweepKeepsStartOrder]_vars

\* advance_time swept two timers of one expiration behind an entry that was
\* queued before
SweepTieBreakWitness ==
    /\ Did("advance_time")
    /\ Len(last.pre.post_queue) > 0
    /\ last.ret >= 2
    /\ \E j, k \in 1..Len(post_queue) :
          /\ j < k
          /\ post_queue[j].timer # NoTimer
          /\ post_queue[k].timer # NoTimer
          /\ Expiration(post_queue[j].timer) = Expiration(post_queue[k].timer)

\* C18: an action that run_one invokes and that itself calls post or start,
\* be it with an expiration that is due already, is the only action this
\* run_one invokes: the action it posts stands behind every entry of the
\* ready queue, and the timer it starts is pending, at the back of the pending
\* set, neither queued nor run.
NoReentrancy ==
    (Did("run_one") /\ last.ret /\ kinds[Invoked[1]] # "marker")
        => LET a == Invoked[1]
               now == last.pre.current_time
           IN  /\ Len(Invoked) = 1
               /\ get_time(State) = now
               /\ kinds[a] = "poster"
                     => /\ post_queue = Tail(Swept(last.pre))
                                            \o <<[action |-> a + 1, timer |-> NoTimer]>>
                        /\ timers = LaterThan(last.pre.timers, now)
               /\ kinds[a] = "starter"
                     => /\ post_queue = Tail(Swept(last.pre))
                        /\ timers = LaterThan(last.pre.timers, now) \o <<a + 1>>
                        /\ Expiration(a + 1) <= now
                        /\ ~Fired(a + 1)

\* run_one invoked an action that started a timer due at once, with another
\* entry left in the ready queue: the timer is pending
NoReentrancyWitness ==
    /\ Did("run_one")
    /\ last.ret
    /\ kinds[Invoked[1]] = "starter"
    /\ Len(post_queue) > 0
    /\ Pending(Invoked[1] + 1)
    /\ expired(State, Invoked[1] + 1)

AdvanceMakesReady ==
    (Did("advance_to_next_timer") /\ last.ret)
        => LET r == run_one(State)
           IN  /\ r.ret
               /\ \E p \in SeqToSet(timers) :
                      /\ Expiration(p) = get_time(State)
                      /\ p \notin SeqToSet(r.s.timers)
                      /\ \/ \E k \in 1..Len(r.s.post_queue) : r.s.post_queue[k].timer = p
                         \/ r.s.log[Len(r.s.log)].timer = p

\* no action that is still to run starts a timer
StartsNothing == \A k \in 1..Len(post_queue) : kinds[post_queue[k].action] # "starter"

\* no timer is pending, the ready queue is empty, and the action of each
\* timer was invoked once, but for the timers cancelled while pending, whose
\* actions were not invoked
Drained ==
    /\ num_pending_timers(State) = 0
    /\ num_active(State) = 0
    /\ \A p \in Started :
          Cardinality({k \in 1..Len(log) : log[k].timer = p})
              = IF \E c \in cancels : c.timer = p /\ c.pending THEN 0 ELSE 1

\* C20: whenever advance_to_next_timer() returns true, a run_one() that
\* follows at once returns true and fires (hands to the ready queue) a timer
\* whose expiration is the new get_time(); and when the actions to run start
\* no timers, the loop of advance_to_next_timer() and run_many() comes to a
\* state with num_pending_timers() = 0 and num_active() = 0 in which the
\* action of every timer not cancelled was invoked exactly once.
DriverProgress ==
    /\ [](AdvanceMakesReady)
    /\ ((driver # "test" /\ StartsNothing) ~> Drained)

\* the loop has drained the executor: it jumped to two expirations, one after
\* the other, ran the timer of each at its expiration, and a timer that was
\* cancelled while pending did not run
DriverProgressWitness ==
    /\ driver # "test"
    /\ Drained
    /\ \E c \in cancels : c.pending
    /\ \E j, k \in 1..Len(log) :
          /\ log[j].timer # NoTimer
          /\ log[k].timer # NoTimer
          /\ log[j].at = Expiration(log[j].timer)
          /\ log[k].at = Expiration(log[k].timer)
          /\ 0 < log[j].at
          /\ log[j].at < log[k].at

====
